---- MODULE Spec2Model ----
(***************************************************************************)
(* Model of src/app.py: the Streamlit "Social Media Post Generator".       *)
(*                                                                         *)
(* A text is a sequence of tokens.  A token is either one occurrence of a  *)
(* literal the code splits on ("LinkedIn:", "Twitter:", "WhatsApp:"), a    *)
(* differently capitalised label ("twitter:"), one whitespace character    *)
(* or one other character.  The three literals cannot overlap each other   *)
(* or themselves, so str.split on a literal is a split on a token.         *)
(***************************************************************************)
EXTENDS Integers, Sequences, FiniteSets

\* ---------------------------------------------------------------- bounds
MaxLen == 6

\* ------------------------------------------------------------- constants
MinDetailsLen == 10

LI == "LinkedIn:"
TW == "Twitter:"
WA == "WhatsApp:"
tw == "twitter:"
CH == "a"
SP == " "

Labels == {LI, TW, WA}
Alphabet == {LI, TW, WA, tw, CH, SP}

\* Python's None, as a value of the same shape as a text
None == <<"None">>
\* the remote provider's failure (any exception raised inside the try block)
Fault == <<"Fault">>

Texts == UNION {[1..n -> Alphabet] : n \in 0..MaxLen}

Rep(c, n) == [i \in 1..n |-> c]

ApiKeys == {"", "sk"}

\* what the user can type into the text area
DetailsInputs ==
    { <<>>,
      <<SP>>,
      Rep(CH, MinDetailsLen - 1),
      <<SP>> \o Rep(CH, MinDetailsLen - 1),
      Rep(CH, MinDetailsLen),
      Rep(CH, MinDetailsLen - 5) \o <<SP>> \o Rep(CH, MinDetailsLen - 6) }

\* ------------------------------------------------------- string helpers
\* str.strip(): drop leading and trailing whitespace
Strip(s) ==
    LET idx == {i \in 1..Len(s) : s[i] # SP}
    IN  IF idx = {} THEN <<>>
        ELSE LET lo == CHOOSE i \in idx : \A j \in idx : i <= j
                 hi == CHOOSE i \in idx : \A j \in idx : i >= j
             IN  SubSeq(s, lo, hi)

\* str.split(sep, 1): only the first occurrence of sep separates
Split_FirstOnly(s, sep) ==
    IF \E i \in 1..Len(s) : s[i] = sep
    THEN LET i == CHOOSE i \in 1..Len(s) :
                      s[i] = sep /\ \A j \in 1..(i - 1) : s[j] # sep
         IN  <<SubSeq(s, 1, i - 1), SubSeq(s, i + 1, Len(s))>>
    ELSE <<s>>

\* str.split(sep): every occurrence of sep separates two parts
RECURSIVE Split(_, _)
Split(s, sep) ==
    IF \E i \in 1..Len(s) : s[i] = sep
    THEN LET i == CHOOSE i \in 1..Len(s) :
                      s[i] = sep /\ \A j \in 1..(i - 1) : s[j] # sep
         IN  <<SubSeq(s, 1, i - 1)>> \o Split(SubSeq(s, i + 1, Len(s)), sep)
    ELSE <<s>>

Contains(s, c) == \E i \in 1..Len(s) : s[i] = c

\* truthiness of a str-or-None value
Truthy(v) == v # None /\ v # <<>>

\* ----------------------------------------------------- the two API calls
\* generate_social_media_posts without its except clause
generate_social_media_posts_Reraise(outcome) ==
    IF outcome = Fault
    THEN [ret |-> None, error |-> {}, raised |-> TRUE]
    ELSE [ret |-> outcome, error |-> {}, raised |-> FALSE]

\* generate_social_media_posts: the completion text, or st.error and None
generate_social_media_posts(outcome) ==
    IF outcome = Fault
    THEN [ret |-> None, error |-> {"Error generating posts"}, raised |-> FALSE]
    ELSE [ret |-> outcome, error |-> {}, raised |-> FALSE]

\* generate_event_image: the image, or st.error and None
generate_event_image(outcome) ==
    IF outcome = "Fault"
    THEN [ret |-> "None", error |-> {"Error generating image"}, raised |-> FALSE]
    ELSE [ret |-> "img", error |-> {}, raised |-> FALSE]

\* ------------------------------------------------- the section splitting
NoTabs == [shown |-> FALSE, linkedin |-> <<>>, twitter |-> <<>>, whatsapp |-> <<>>]

\* line 145: sections[1].split('Twitter:')[0].strip()
LinkedinText(section) == Strip(Split(section, TW)[1])

\* line 146 without the cut at 'WhatsApp:'
TwitterText_NoCut(section) == Strip(Split(section, TW)[2])

\* line 146: sections[1].split('Twitter:')[1].split('WhatsApp:')[0].strip()
TwitterText(section) == Strip(Split(Split(section, TW)[2], WA)[1])

\* line 147 with index 0 in place of 1
WhatsappText_Before(section) == Strip(Split(section, WA)[1])

\* line 147: sections[1].split('WhatsApp:')[1].strip()
WhatsappText(section) == Strip(Split(section, WA)[2])

\* lines 143-159 of main: fault is the IndexError of a [1] on a one-part split
ParseSections(text) ==
    LET sections == Split(text, LI)
    IN  IF Len(sections) > 1
        THEN IF \/ Len(Split(sections[2], TW)) < 2
                \/ Len(Split(sections[2], WA)) < 2
             THEN [fault |-> TRUE, tabs |-> NoTabs]
             ELSE [fault |-> FALSE,
                   tabs  |-> [shown    |-> TRUE,
                              linkedin |-> LinkedinText(sections[2]),
                              twitter  |-> TwitterText(sections[2]),
                              whatsapp |-> WhatsappText(sections[2])]]
        ELSE [fault |-> FALSE, tabs |-> NoTabs]

\* line 135 with "or" in place of "and"
ShouldRender_Either(p, img) == Truthy(p) \/ img # "None"

\* line 135: if posts and image
ShouldRender(p, img) == Truthy(p) /\ img # "None"

\* ------------------------------------------------------------ validation
KeyMissing(k) == k = ""
\* line 123 with the bound off by one
DetailsTooShort_OffByOne(d) == d = <<>> \/ Len(Strip(d)) < MinDetailsLen - 1

DetailsTooShort(d) == d = <<>> \/ Len(Strip(d)) < MinDetailsLen

\* ------------------------------------------------------------------ state
VARIABLES
    api_key,        \* sidebar text input
    event_details,  \* text area
    pc,             \* position of the running script: idle, call_text, call_image
    clicked,        \* the last script run was started by the button
    posts,          \* main's local posts
    image,          \* main's local image
    textCalled,     \* generate_social_media_posts was called in this run
    imageCalled,    \* generate_event_image was called in this run
    textFault,      \* the completion request raised inside generate_social_media_posts
    imageFault,     \* the image request raised inside generate_event_image
    errors,         \* st.error messages on the page
    success,        \* st.success on the page
    postsShown,     \* st.markdown(posts) on the page
    tabs,           \* the three per-platform text areas
    imageShown,     \* st.image and the download link on the page
    crashed         \* the script run ended in an uncaught exception

vars == <<api_key, event_details, pc, clicked, posts, image, textCalled,
          imageCalled, textFault, imageFault, errors, success, postsShown, tabs, imageShown, crashed>>

\* a script run starts from an empty page
FreshPage ==
    /\ posts' = None
    /\ image' = "None"
    /\ textCalled' = FALSE
    /\ imageCalled' = FALSE
    /\ textFault' = FALSE
    /\ imageFault' = FALSE
    /\ errors' = {}
    /\ success' = FALSE
    /\ postsShown' = FALSE
    /\ tabs' = NoTabs
    /\ imageShown' = FALSE
    /\ crashed' = FALSE

Init ==
    /\ api_key = ""
    /\ event_details = <<>>
    /\ pc = "idle"
    /\ clicked = FALSE
    /\ posts = None
    /\ image = "None"
    /\ textCalled = FALSE
    /\ imageCalled = FALSE
    /\ textFault = FALSE
    /\ imageFault = FALSE
    /\ errors = {}
    /\ success = FALSE
    /\ postsShown = FALSE
    /\ tabs = NoTabs
    /\ imageShown = FALSE
    /\ crashed = FALSE

\* ---------------------------------------------------------------- actions
\* editing the sidebar key reruns main with generate_btn = False
SetApiKey ==
    /\ pc = "idle"
    /\ \E k \in ApiKeys : k # api_key /\ api_key' = k
    /\ clicked' = FALSE
    /\ FreshPage
    /\ UNCHANGED <<event_details, pc>>

\* editing the text area reruns main with generate_btn = False
SetEventDetails ==
    /\ pc = "idle"
    /\ \E d \in DetailsInputs : d # event_details /\ event_details' = d
    /\ clicked' = FALSE
    /\ FreshPage
    /\ UNCHANGED <<api_key, pc>>

\* button pressed, line 121 taken
ClickNoKey ==
    /\ pc = "idle"
    /\ KeyMissing(api_key)
    /\ clicked' = TRUE
    /\ posts' = None /\ image' = "None"
    /\ textCalled' = FALSE /\ imageCalled' = FALSE
    /\ textFault' = FALSE /\ imageFault' = FALSE
    /\ errors' = {"Please enter your OpenAI API key in the sidebar."}
    /\ success' = FALSE /\ postsShown' = FALSE /\ tabs' = NoTabs
    /\ imageShown' = FALSE /\ crashed' = FALSE
    /\ UNCHANGED <<api_key, event_details, pc>>

\* button pressed, line 123 taken
ClickShortDetails ==
    /\ pc = "idle"
    /\ ~KeyMissing(api_key)
    /\ DetailsTooShort(event_details)
    /\ clicked' = TRUE
    /\ posts' = None /\ image' = "None"
    /\ textCalled' = FALSE /\ imageCalled' = FALSE
    /\ textFault' = FALSE /\ imageFault' = FALSE
    /\ errors' = {"Please provide more details about your event."}
    /\ success' = FALSE /\ postsShown' = FALSE /\ tabs' = NoTabs
    /\ imageShown' = FALSE /\ crashed' = FALSE
    /\ UNCHANGED <<api_key, event_details, pc>>

\* button pressed, else branch of line 125 entered
ClickValid ==
    /\ pc = "idle"
    /\ ~KeyMissing(api_key)
    /\ ~DetailsTooShort(event_details)
    /\ clicked' = TRUE
    /\ FreshPage
    /\ pc' = "call_text"
    /\ UNCHANGED <<api_key, event_details>>

\* lines 129-130
CallText ==
    /\ pc = "call_text"
    /\ \E outcome \in Texts \cup {Fault} :
         LET r == generate_social_media_posts(outcome)
         IN  /\ textCalled' = TRUE
             /\ textFault' = (outcome = Fault)
             /\ posts' = r.ret
             /\ errors' = errors \cup r.error
             /\ crashed' = r.raised
             /\ pc' = IF r.raised THEN "idle" ELSE "call_image"
    /\ UNCHANGED <<api_key, event_details, clicked, image, imageCalled,
                   imageFault, success, postsShown, tabs, imageShown>>

\* lines 132-177: the image call, then the rendering of both results
CallImageAndRender ==
    /\ pc = "call_image"
    /\ \E outcome \in {"Fault", "ok"} :
         LET r == generate_event_image(outcome)
             p == ParseSections(posts)
         IN  /\ imageCalled' = TRUE
             /\ imageFault' = (outcome = "Fault")
             /\ image' = r.ret
             /\ errors' = errors \cup r.error
             /\ IF r.raised
                THEN /\ crashed' = TRUE
                     /\ success' = FALSE /\ postsShown' = FALSE
                     /\ tabs' = NoTabs /\ imageShown' = FALSE
                ELSE IF ShouldRender(posts, r.ret)
                THEN /\ success' = TRUE
                     /\ postsShown' = TRUE
                     /\ tabs' = p.tabs
                     /\ crashed' = p.fault
                     /\ imageShown' = ~p.fault
                ELSE /\ crashed' = FALSE
                     /\ success' = FALSE /\ postsShown' = FALSE
                     /\ tabs' = NoTabs /\ imageShown' = FALSE
    /\ pc' = "idle"
    /\ UNCHANGED <<api_key, event_details, clicked, posts, textCalled,
                   textFault>>

Next ==
    \/ SetApiKey
    \/ SetEventDetails
    \/ ClickNoKey
    \/ ClickShortDetails
    \/ ClickValid
    \/ CallText
    \/ CallImageAndRender

Spec == Init /\ [][Next]_vars

TypeOK ==
    /\ api_key \in ApiKeys
    /\ event_details \in DetailsInputs
    /\ pc \in {"idle", "call_text", "call_image"}
    /\ posts \in Texts \cup {None}
    /\ image \in {"None", "img"}

\* ============================================================== properties
Count(p, lab) == Cardinality({i \in 1..Len(p) : p[i] = lab})
FirstPos(p, lab) == CHOOSE i \in 1..Len(p) : p[i] = lab /\ \A j \in 1..(i - 1) : p[j] # lab
After(p, i) == SubSeq(p, i + 1, Len(p))
Between(p, i, j) == SubSeq(p, i + 1, j - 1)

\* a button run has ended
ActionDone == pc = "idle" /\ clicked
\* the run reached the section-splitting step of line 143
Rendered == ActionDone /\ postsShown

OnceEach(p) == Count(p, LI) = 1 /\ Count(p, TW) = 1 /\ Count(p, WA) = 1
InOrder(p) == FirstPos(p, LI) < FirstPos(p, TW) /\ FirstPos(p, TW) < FirstPos(p, WA)

\* 'LinkedIn:' B1 'Twitter:' B2 'WhatsApp:' B3, every body non-empty once trimmed
WellFormed(p) ==
    /\ OnceEach(p)
    /\ InOrder(p)
    /\ Strip(Between(p, FirstPos(p, LI), FirstPos(p, TW))) # <<>>
    /\ Strip(Between(p, FirstPos(p, TW), FirstPos(p, WA))) # <<>>
    /\ Strip(After(p, FirstPos(p, WA))) # <<>>

\* C1: for every generated text the section-splitting step of main ends
\* without raising; a missing or reordered label is never an error.
C1_SplittingNeverFaults == Rendered => ~crashed

\* C2: when each label occurs exactly once, in the order LinkedIn, Twitter,
\* WhatsApp, with non-empty trimmed bodies, the three extracted bodies are the
\* trimmed texts between the labels, and no body holds the next label.
C2_WellFormedExtracted ==
    (Rendered /\ WellFormed(posts)) =>
        /\ ~crashed
        /\ tabs.shown
        /\ tabs.linkedin = Strip(Between(posts, FirstPos(posts, LI), FirstPos(posts, TW)))
        /\ tabs.twitter = Strip(Between(posts, FirstPos(posts, TW), FirstPos(posts, WA)))
        /\ tabs.whatsapp = Strip(After(posts, FirstPos(posts, WA)))
        /\ ~Contains(tabs.linkedin, TW)
        /\ ~Contains(tabs.twitter, WA)

C2_Witness == Rendered /\ WellFormed(posts) /\ tabs.shown /\ tabs.whatsapp # <<>>

\* C3: when the three labels occur out of the order LinkedIn, Twitter,
\* WhatsApp, the text is not presented as three parsed sections, and no body
\* holds another platform's label or text.
C3_OutOfOrderNotAttributed ==
    (Rendered /\ OnceEach(posts) /\ ~InOrder(posts)) =>
        /\ ~tabs.shown
        /\ \A lab \in Labels :
              /\ ~Contains(tabs.linkedin, lab)
              /\ ~Contains(tabs.twitter, lab)
              /\ ~Contains(tabs.whatsapp, lab)

\* C4: with 'LinkedIn:' followed by 'Twitter:' and no WhatsApp label, the
\* LinkedIn and Twitter bodies are still extracted (trimmed text up to the next
\* label or the end) and the WhatsApp body is empty.
C4_MissingWhatsAppDegrades ==
    (/\ Rendered
     /\ Count(posts, LI) = 1 /\ Count(posts, TW) = 1 /\ Count(posts, WA) = 0
     /\ FirstPos(posts, LI) < FirstPos(posts, TW)) =>
        /\ ~crashed
        /\ tabs.linkedin = Strip(Between(posts, FirstPos(posts, LI), FirstPos(posts, TW)))
        /\ tabs.twitter = Strip(After(posts, FirstPos(posts, TW)))
        /\ tabs.whatsapp = <<>>

\* C5: whenever section bodies are produced, no body holds the label of its
\* own section or of the section after it, repeated labels included.
C5_NoLabelInBody ==
    (ActionDone /\ tabs.shown) =>
        /\ ~Contains(tabs.linkedin, LI) /\ ~Contains(tabs.linkedin, TW)
        /\ ~Contains(tabs.twitter, TW) /\ ~Contains(tabs.twitter, WA)
        /\ ~Contains(tabs.whatsapp, WA)

C5_Witness ==
    /\ Rendered /\ tabs.shown
    /\ Count(posts, TW) > 1 /\ Count(posts, WA) > 1
    /\ tabs.twitter # <<>>

\* C6: a label written in another capitalisation yields the same sections as
\* the label written 'Twitter:'.
Recased(p) == [i \in 1..Len(p) |-> IF p[i] = tw THEN TW ELSE p[i]]

C6_CaseInsensitive ==
    Rendered =>
        /\ crashed = ParseSections(Recased(posts)).fault
        /\ tabs = ParseSections(Recased(posts)).tabs

\* C7: a button run with an empty key, or with a description that is empty or
\* shorter than 10 characters once trimmed, shows an error and calls neither
\* generate_social_media_posts nor generate_event_image.
C7_InvalidInputNoCall ==
    (/\ clicked
     /\ \/ api_key = ""
        \/ event_details = <<>>
        \/ Len(event_details) < MinDetailsLen
        \/ Len(Strip(event_details)) < MinDetailsLen) =>
        /\ errors # {}
        /\ ~textCalled
        /\ ~imageCalled
        /\ pc = "idle"

C7_Witness ==
    /\ clicked
    /\ api_key # ""
    /\ Len(event_details) >= MinDetailsLen
    /\ Len(Strip(event_details)) < MinDetailsLen
    /\ errors # {}

\* C8: in a button run with valid inputs, a failure of either remote call is
\* reported as an error and does not end the run in an uncaught exception, and
\* both calls are made whichever of them failed.
C8_FaultCaughtOtherCallRuns ==
    (/\ ActionDone
     /\ api_key # ""
     /\ Len(Strip(event_details)) >= MinDetailsLen) =>
        /\ textCalled
        /\ imageCalled
        /\ textFault => ("Error generating posts" \in errors /\ ~crashed)
        /\ imageFault => ("Error generating image" \in errors /\ ~crashed)

C8_Witness == ActionDone /\ textFault /\ ~imageFault /\ imageCalled /\ image = "img"

\* C9: applying the section-splitting step again to an extracted body on its
\* own splits nothing: no section is produced from it and it does not fault.
C9_ReparseSplitsNothing ==
    (ActionDone /\ tabs.shown) =>
        \A b \in {tabs.linkedin, tabs.twitter, tabs.whatsapp} :
            /\ Len(Split(b, LI)) = 1
            /\ ParseSections(b) = [fault |-> FALSE, tabs |-> NoTabs]

C9_Witness ==
    /\ Rendered /\ tabs.shown
    /\ Count(posts, LI) > 1
    /\ \E lab \in Labels : Contains(tabs.whatsapp, lab)

\* C10: the generated text, the per-platform sections and the image are on
\* the page only if the text call returned non-empty text and the image call
\* returned an image.
C10_AllOrNothing ==
    (success \/ postsShown \/ tabs.shown \/ imageShown) =>
        (posts # None /\ posts # <<>> /\ ~textFault /\ image = "img" /\ ~imageFault)

C10_Witness ==
    /\ ActionDone
    /\ posts # None /\ posts # <<>>
    /\ imageFault
    /\ ~postsShown /\ ~imageShown /\ ~success

====
